---- MODULE Spec2Model ----
(***************************************************************************)
(* The execution core of the 8-bit CPU interpreter in src/src/main.rs:     *)
(* the CPU struct (register_a, register_x, status, program_counter,        *)
(* memory), its memory helpers, load / reset / load_and_run, and the       *)
(* fetch-decode-execute loop of run(), one instruction per step.           *)
(*                                                                         *)
(* A Rust panic (slice or index out of bounds, todo!()) ends the call that *)
(* raised it: the model records it as phase = "Fatal" and keeps the field  *)
(* values the processor had when the panic was raised.                     *)
(***************************************************************************)
EXTENDS Integers, Sequences, FiniteSets, TLC

(***************************************************************************)
(* Program constants.                                                      *)
(***************************************************************************)
\* memory: [u8; 0xFFFF]  -- the array has 0xFFFF entries, indices 0..0xFFFE
MemLen == 65535
\* load() copies the program to memory[0x8000 ..]
Origin == 32768
\* reset() reads, and load() writes, the 16-bit word at 0xFFFC
ResetVector == 65532
\* opcodes matched by run()
OpLDA == 169
OpBRK == 0
OpTAX == 170
OpINX == 232
\* bit masks of update_zero_and_negative_flags
ZeroMask == 2
NegativeMask == 128

\* value ranges of the Rust integer types
U8 == 0..255
U16 == 0..65535

(***************************************************************************)
(* Bounds of the model.                                                    *)
(***************************************************************************)
\* longest program drawn from the whole alphabet
MaxProgLen == 2
\* caller operations (load, reset, run, ...) in one behaviour
MaxCalls == 3
\* how many bytes longer than the memory above Origin the longest program is
MaxOver == 2
\* loads of one processor in the reload specification
MaxLoads == 2

(***************************************************************************)
(* u8 bit operations, bit by bit (Rust `|` and `&` on u8).                 *)
(***************************************************************************)
RECURSIVE BitOp(_, _, _, _)
BitOp(a, b, n, isOr) ==
    IF n = 0 THEN 0
    ELSE LET ba == a % 2
             bb == b % 2
             bit == IF isOr THEN (IF ba + bb > 0 THEN 1 ELSE 0)
                            ELSE (IF ba + bb = 2 THEN 1 ELSE 0)
         IN bit + 2 * BitOp(a \div 2, b \div 2, n - 1, isOr)

BitOr(a, b) == BitOp(a, b, 16, TRUE)

BitAnd(a, b) == BitOp(a, b, 16, FALSE)

(***************************************************************************)
(* Memory.  The array `memory` is held as the function of its non-zero     *)
(* entries: an index of the array that is not in the domain holds 0, as    *)
(* [0; 0xFFFF] makes it at construction.  InBounds is the bounds check of  *)
(* Rust's array indexing: an index MemLen or above panics.                 *)
(***************************************************************************)
EmptyMemory == [a \in {} |-> 0]

InBounds(addr) == addr < MemLen

\* self.memory[addr as usize]
mem_read(mem, addr) == IF addr \in DOMAIN mem THEN mem[addr] ELSE 0

\* self.memory[addr as usize] = data
mem_write(mem, addr, data) ==
    IF data = 0
    THEN [a \in DOMAIN mem \ {addr} |-> mem[a]]
    ELSE [a \in DOMAIN mem \cup {addr} |-> IF a = addr THEN data ELSE mem[a]]

\* (hi << 8) | lo of mem_read_u16, both reads in bounds
mem_read_u16(mem, addr) ==
    LET lo == mem_read(mem, addr)
        hi == mem_read(mem, addr + 1)
    IN BitOr((hi * 256) % 65536, lo)

\* the two bytes mem_write_u16 stores
HiByte(data) == (data \div 256) % 256

LoByte(data) == BitAnd(data, 255) % 256

\* mem_write_u16 with both writes in bounds
mem_write_u16(mem, addr, data) ==
    mem_write(mem_write(mem, addr, LoByte(data)), addr + 1, HiByte(data))

(***************************************************************************)
(* Instructions.                                                           *)
(***************************************************************************)
\* update_zero_and_negative_flags without the else branch of the Zero flag
update_flags_zero_sticky(st, result) ==
    LET s1 == IF result = 0 THEN BitOr(st, ZeroMask) ELSE st
    IN IF BitAnd(result, NegativeMask) # 0
       THEN BitOr(s1, NegativeMask)
       ELSE BitAnd(s1, 127)

\* a flag update that never clears Negative
update_flags_negative_sticky(st, result) ==
    LET s1 == IF result = 0 THEN BitOr(st, ZeroMask) ELSE BitAnd(st, 253)
    IN IF BitAnd(result, NegativeMask) # 0 THEN BitOr(s1, NegativeMask) ELSE s1

\* a flag update that assigns the two flags and clears the other bits
update_flags_assign(st, result) ==
    (IF result = 0 THEN ZeroMask ELSE 0) +
    (IF BitAnd(result, NegativeMask) # 0 THEN NegativeMask ELSE 0)

\* the status register after update_zero_and_negative_flags(result)
update_zero_and_negative_flags(st, result) ==
    LET s1 == IF result = 0
              THEN BitOr(st, ZeroMask)
              ELSE BitAnd(st, 253)
    IN IF BitAnd(result, NegativeMask) # 0
       THEN BitOr(s1, NegativeMask)
       ELSE BitAnd(s1, 127)

\* an addition that stops at 255
saturating_add(x, n) == IF x + n > 255 THEN 255 ELSE x + n

\* register_x.wrapping_add(1)
wrapping_add(x, n) == (x + n) % 256

\* lda that updates the flags before it stores the parameter
lda_stale_flags(a, x, st, param) ==
    [a |-> param, x |-> x, st |-> update_zero_and_negative_flags(st, a)]

\* lda: the registers and status after lda(param)
lda(a, x, st, param) ==
    [a |-> param, x |-> x, st |-> update_zero_and_negative_flags(st, param)]

\* tax that copies the other way
tax_reversed(a, x, st) ==
    [a |-> x, x |-> x, st |-> update_zero_and_negative_flags(st, x)]

\* tax
tax(a, x, st) ==
    [a |-> a, x |-> a, st |-> update_zero_and_negative_flags(st, a)]

\* inx that leaves the flags alone
inx_no_flags(a, x, st) ==
    [a |-> a, x |-> wrapping_add(x, 1), st |-> st]

\* inx
inx(a, x, st) ==
    LET nx == wrapping_add(x, 1)
    IN [a |-> a, x |-> nx, st |-> update_zero_and_negative_flags(st, nx)]

(***************************************************************************)
(* Programs: the Vec<u8> arguments of load and load_and_run.  A vector is  *)
(* held like the memory: its length, and its non-zero bytes by index       *)
(* (from 0), so that a program of 0x7FFF bytes is a small value.           *)
(***************************************************************************)
\* the vector with the bytes of the sequence s
Vec(s) ==
    [len |-> Len(s),
     bytes |-> [i \in {j \in 0..(Len(s) - 1) : s[j + 1] # 0} |-> s[i + 1]]]

\* program[i]
vec_at(prog, i) == IF i \in DOMAIN prog.bytes THEN prog.bytes[i] ELSE 0

\* bytes a memory of MemLen entries has from Origin up
Capacity == MemLen - Origin

\* the four opcodes of run(), and one byte run() does not match
Alphabet == {OpBRK, OpLDA, OpTAX, OpINX, 2}

\* every program over the alphabet, up to MaxProgLen bytes
ShortPrograms == {Vec(s) : s \in UNION {[1..n -> Alphabet] : n \in 0..MaxProgLen}}

\* LDA v, BRK and LDA v, TAX, INX, BRK for every byte v
BytePrograms ==
    {Vec(<<OpLDA, v, OpBRK>>) : v \in U8} \cup
    {Vec(<<OpLDA, v, OpTAX, OpINX, OpBRK>>) : v \in U8}

\* a program of len bytes, zero but for the byte t at the addresses from
\* ResetVector - 1 up
LongProgram(len, t) ==
    [len |-> len,
     bytes |-> [i \in (ResetVector - 1 - Origin)..(len - 1) |-> t]]

\* programs that reach the reset vector, the end of memory, and beyond it
LongPrograms ==
    {LongProgram(len, t) : len \in (Capacity - 3)..(Capacity + MaxOver),
                           t \in {OpINX, OpLDA}}

\* the programs the tests of main.rs pass to load()
TestPrograms == {Vec(<<OpTAX, OpBRK>>), Vec(<<OpINX, OpINX, OpBRK>>)}

Programs == ShortPrograms \cup TestPrograms \cup LongPrograms

\* register and status values a caller stores in the pub fields
ASamples == {10, 128}

XSamples == {255}

\* every bit set, and every bit but Zero and Negative set
StatusSamples == {125, 255}

\* the last program byte below the reset vector, and the last entry of the
\* array
CounterSamples == {ResetVector - 1, MemLen - 1}

(***************************************************************************)
(* State.                                                                  *)
(***************************************************************************)
VARIABLES
    register_a,       \* CPU.register_a
    register_x,       \* CPU.register_x
    status,           \* CPU.status
    program_counter,  \* CPU.program_counter
    memory,           \* CPU.memory, as its non-zero entries
    phase,            \* "Idle", "Running" (inside run), "Halted", "Fatal"
    last,             \* the operation or instruction executed last
    prev,             \* the one executed before it
    program,          \* the argument of the last load
    entry,            \* the registers when run() was entered last
    steps,            \* instructions executed since run() was entered
    calls,            \* operations the caller has started
    loads,            \* load calls among them
    call,             \* address, data and result of the last memory helper call
    written           \* per address, the byte the caller's last write to it stored

vars == <<register_a, register_x, status, program_counter, memory, phase,
          last, prev, program, entry, steps, calls, loads, call, written>>

cpu == <<register_a, register_x, status, program_counter, memory>>

Registers == [a |-> register_a, x |-> register_x, st |-> status,
              pc |-> program_counter]

NoCall == [addr |-> 0, data |-> 0, ret |-> 0]

\* CPU::new()
Init ==
    /\ register_a = 0
    /\ register_x = 0
    /\ status = 0
    /\ program_counter = 0
    /\ memory = EmptyMemory
    /\ phase = "Idle"
    /\ last = "new"
    /\ prev = "new"
    /\ program = Vec(<<>>)
    /\ entry = [a |-> 0, x |-> 0, st |-> 0, pc |-> 0]
    /\ steps = 0
    /\ calls = 0
    /\ loads = 0
    /\ call = NoCall
    /\ written = EmptyMemory

\* the caller holds the processor: no run() is in progress, none has panicked
Callable == phase \in {"Idle", "Halted"}

ZeroFlag == BitAnd(status, ZeroMask) # 0

NegativeFlag == BitAnd(status, NegativeMask) # 0

(***************************************************************************)
(* load, reset: the effect on the fields, as operators.                    *)
(***************************************************************************)
\* the slice index of load() panics when its end is past the array
LoadAccepts(prog) == Origin + prog.len <= MemLen

\* a copy that stops one byte short of the program's end
copy_from_slice_short(mem, prog) ==
    LET Covered(a) == Origin <= a /\ a < Origin + prog.len - 1
        kept == {a \in DOMAIN mem : ~Covered(a)}
        nonzero == {Origin + i : i \in {j \in DOMAIN prog.bytes : j < prog.len - 1}}
    IN [a \in kept \cup nonzero |->
           IF Covered(a) THEN vec_at(prog, a - Origin) ELSE mem[a]]

\* a copy that also zeroes the memory above the program's end
copy_from_slice_clearing(mem, prog) ==
    LET kept == {a \in DOMAIN mem : a < Origin}
        nonzero == {Origin + i : i \in DOMAIN prog.bytes}
    IN [a \in kept \cup nonzero |->
           IF a >= Origin THEN vec_at(prog, a - Origin) ELSE mem[a]]

\* self.memory[0x8000 .. 0x8000 + len].copy_from_slice(&program[..])
copy_from_slice(mem, prog) ==
    LET Covered(a) == Origin <= a /\ a < Origin + prog.len
        kept == {a \in DOMAIN mem : ~Covered(a)}
        nonzero == {Origin + i : i \in DOMAIN prog.bytes}
    IN [a \in kept \cup nonzero |->
           IF Covered(a) THEN vec_at(prog, a - Origin) ELSE mem[a]]

\* load that writes the reset vector before it copies the program
load_memory_vector_first(mem, prog) ==
    copy_from_slice(mem_write_u16(mem, ResetVector, Origin), prog)

\* load without the reset vector
load_memory_copy_only(mem, prog) == copy_from_slice(mem, prog)

\* the memory after an accepted load(prog): the copy, then the reset vector
load_memory(mem, prog) ==
    mem_write_u16(copy_from_slice(mem, prog), ResetVector, Origin)

\* reset that reads the vector high byte first
reset_registers_big_endian(mem) ==
    [a |-> 0, x |-> 0, st |-> 0,
     pc |-> mem_read(mem, ResetVector) * 256 + mem_read(mem, ResetVector + 1)]

\* the registers after reset()
reset_registers(mem) ==
    [a |-> 0, x |-> 0, st |-> 0, pc |-> mem_read_u16(mem, ResetVector)]

(***************************************************************************)
(* The caller: it stores to the pub registers, then calls.                *)
(***************************************************************************)
Ghosts == <<program, entry, steps, calls, loads, call, written>>

\* cpu.register_a = v
SetRegisterA(v) ==
    /\ Callable /\ calls = 0
    /\ register_a' = v
    /\ last' = "set" /\ prev' = last
    /\ UNCHANGED <<register_x, status, program_counter, memory, phase, Ghosts>>

\* cpu.register_x = v
SetRegisterX(v) ==
    /\ Callable /\ calls = 0
    /\ register_x' = v
    /\ last' = "set" /\ prev' = last
    /\ UNCHANGED <<register_a, status, program_counter, memory, phase, Ghosts>>

\* cpu.status = v
SetStatus(v) ==
    /\ Callable /\ calls = 0
    /\ status' = v
    /\ last' = "set" /\ prev' = last
    /\ UNCHANGED <<register_a, register_x, program_counter, memory, phase, Ghosts>>

\* cpu.program_counter = v
SetProgramCounter(v) ==
    /\ Callable /\ calls < MaxCalls
    /\ program_counter' = v
    /\ phase' = "Idle"
    /\ last' = "counter" /\ prev' = last
    /\ calls' = calls + 1
    /\ UNCHANGED <<register_a, register_x, status, memory, program, entry,
                   steps, loads, call, written>>

\* cpu.program_counter = cpu.mem_read_u16(0xFFFC), as the tests enter run()
\* without reset()
SetProgramCounterFromVector ==
    /\ Callable /\ calls < MaxCalls
    /\ program_counter' = mem_read_u16(memory, ResetVector)
    /\ phase' = "Idle"
    /\ last' = "vector" /\ prev' = last
    /\ calls' = calls + 1
    /\ UNCHANGED <<register_a, register_x, status, memory, program, entry,
                   steps, loads, call, written>>

\* load(prog)
Load(prog) ==
    /\ Callable /\ calls < MaxCalls
    /\ last' = "load" /\ prev' = last
    /\ program' = prog
    /\ calls' = calls + 1
    /\ loads' = loads + 1
    /\ IF LoadAccepts(prog)
       THEN /\ memory' = load_memory(memory, prog)
            /\ phase' = "Idle"
       ELSE /\ phase' = "Fatal"
            /\ UNCHANGED memory
    /\ UNCHANGED <<register_a, register_x, status, program_counter, entry,
                   steps, call, written>>

\* reset that clears the accumulator into index_x
ResetStaleX ==
    /\ Callable /\ calls < MaxCalls
    /\ register_a' = 0
    /\ register_x' = register_a
    /\ status' = 0
    /\ program_counter' = mem_read_u16(memory, ResetVector)
    /\ phase' = "Idle"
    /\ last' = "reset" /\ prev' = last
    /\ calls' = calls + 1
    /\ UNCHANGED <<memory, program, entry, steps, loads, call, written>>

\* reset()
Reset ==
    /\ Callable /\ calls < MaxCalls
    /\ LET r == reset_registers(memory)
       IN /\ register_a' = r.a
          /\ register_x' = r.x
          /\ status' = r.st
          /\ program_counter' = r.pc
    /\ phase' = "Idle"
    /\ last' = "reset" /\ prev' = last
    /\ calls' = calls + 1
    /\ UNCHANGED <<memory, program, entry, steps, loads, call, written>>

\* run(): entering the loop
Run ==
    /\ Callable /\ calls < MaxCalls
    /\ phase' = "Running"
    /\ last' = "run" /\ prev' = last
    /\ entry' = Registers
    /\ steps' = 0
    /\ calls' = calls + 1
    /\ UNCHANGED <<cpu, program, loads, call, written>>

\* load_and_run(prog): load, reset, and entering the loop of run()
LoadAndRun(prog) ==
    /\ Callable /\ calls < MaxCalls
    /\ program' = prog
    /\ calls' = calls + 1
    /\ loads' = loads + 1
    /\ last' = "load_and_run" /\ prev' = last
    /\ IF LoadAccepts(prog)
       THEN LET mem == load_memory(memory, prog)
                r == reset_registers(mem)
            IN /\ memory' = mem
               /\ register_a' = r.a
               /\ register_x' = r.x
               /\ status' = r.st
               /\ program_counter' = r.pc
               /\ phase' = "Running"
               /\ entry' = r
               /\ steps' = 0
       ELSE /\ phase' = "Fatal"
            /\ UNCHANGED <<cpu, entry, steps>>
    /\ UNCHANGED <<call, written>>

(***************************************************************************)
(* update_zero_and_negative_flags(result) on its own: the private method   *)
(* lda, tax and inx end with, applied to every status and every result.    *)
(***************************************************************************)
InitFlags ==
    /\ register_a \in {0} \cup ASamples
    /\ register_x = 0
    /\ status \in U8
    /\ program_counter = 0
    /\ memory = EmptyMemory
    /\ phase = "Idle"
    /\ last = "new"
    /\ prev = "new"
    /\ program = Vec(<<>>)
    /\ entry = [a |-> 0, x |-> 0, st |-> 0, pc |-> 0]
    /\ steps = 0
    /\ calls = 0
    /\ loads = 0
    /\ call = NoCall
    /\ written = EmptyMemory

UpdateFlags(result) ==
    /\ last = "new"
    /\ status' = update_zero_and_negative_flags(status, result)
    /\ call' = [addr |-> 0, data |-> result, ret |-> status]
    /\ last' = "update_flags" /\ prev' = last
    /\ UNCHANGED <<register_a, register_x, program_counter, memory, phase,
                   program, entry, steps, calls, loads, written>>

NextFlags == \E result \in U8 : UpdateFlags(result)

SpecFlags == InitFlags /\ [][NextFlags]_vars

(***************************************************************************)
(* run(): one iteration of the loop per step.  The fetch reads             *)
(* memory[program_counter], which panics past the array, and adds 1 to     *)
(* program_counter; a read that succeeded was below MemLen = 0xFFFF, so    *)
(* the u16 addition after it cannot overflow.                              *)
(***************************************************************************)
RunGhosts == <<program, calls, loads, call, written>>

\* the opcode the fetch reads
Fetched(op) ==
    /\ phase = "Running"
    /\ InBounds(program_counter)
    /\ mem_read(memory, program_counter) = op

\* the fetch indexes past the array
FetchPanic ==
    /\ phase = "Running"
    /\ ~InBounds(program_counter)
    /\ phase' = "Fatal"
    /\ last' = "fetch" /\ prev' = last
    /\ UNCHANGED <<cpu, entry, steps, RunGhosts>>

\* an LDA whose operand byte is left for the next fetch
LdaOperandRefetched ==
    /\ Fetched(OpLDA)
    /\ last' = "lda" /\ prev' = last
    /\ LET pc1 == program_counter + 1
       IN IF InBounds(pc1)
          THEN LET r == lda(register_a, register_x, status, mem_read(memory, pc1))
               IN /\ register_a' = r.a
                  /\ register_x' = r.x
                  /\ status' = r.st
                  /\ program_counter' = pc1
                  /\ steps' = steps + 1
                  /\ UNCHANGED phase
          ELSE /\ program_counter' = pc1
               /\ phase' = "Fatal"
               /\ UNCHANGED <<register_a, register_x, status, steps>>
    /\ UNCHANGED <<memory, entry, RunGhosts>>

\* 0xA9 => { param = mem_read(pc); pc += 1; lda(param) }
Lda ==
    /\ Fetched(OpLDA)
    /\ last' = "lda" /\ prev' = last
    /\ LET pc1 == program_counter + 1
       IN IF InBounds(pc1)
          THEN LET r == lda(register_a, register_x, status, mem_read(memory, pc1))
               IN /\ register_a' = r.a
                  /\ register_x' = r.x
                  /\ status' = r.st
                  /\ program_counter' = pc1 + 1
                  /\ steps' = steps + 1
                  /\ UNCHANGED phase
          ELSE /\ program_counter' = pc1
               /\ phase' = "Fatal"
               /\ UNCHANGED <<register_a, register_x, status, steps>>
    /\ UNCHANGED <<memory, entry, RunGhosts>>

\* a BRK that falls through to the next fetch
BrkContinues ==
    /\ Fetched(OpBRK)
    /\ program_counter' = program_counter + 1
    /\ last' = "brk" /\ prev' = last
    /\ steps' = steps + 1
    /\ UNCHANGED <<register_a, register_x, status, memory, phase, entry, RunGhosts>>

\* 0x00 => return
Brk ==
    /\ Fetched(OpBRK)
    /\ program_counter' = program_counter + 1
    /\ phase' = "Halted"
    /\ last' = "brk" /\ prev' = last
    /\ steps' = steps + 1
    /\ UNCHANGED <<register_a, register_x, status, memory, entry, RunGhosts>>

\* a TAX that also stores index_x at address 0
TaxStoresX ==
    /\ Fetched(OpTAX)
    /\ LET r == tax(register_a, register_x, status)
       IN /\ register_a' = r.a
          /\ register_x' = r.x
          /\ status' = r.st
          /\ memory' = mem_write(memory, 0, r.x)
    /\ program_counter' = program_counter + 1
    /\ last' = "tax" /\ prev' = last
    /\ steps' = steps + 1
    /\ UNCHANGED <<phase, entry, RunGhosts>>

\* 0xAA => self.tax()
Tax ==
    /\ Fetched(OpTAX)
    /\ LET r == tax(register_a, register_x, status)
       IN /\ register_a' = r.a
          /\ register_x' = r.x
          /\ status' = r.st
    /\ program_counter' = program_counter + 1
    /\ last' = "tax" /\ prev' = last
    /\ steps' = steps + 1
    /\ UNCHANGED <<memory, phase, entry, RunGhosts>>

\* 0xE8 => self.inx()
Inx ==
    /\ Fetched(OpINX)
    /\ LET r == inx(register_a, register_x, status)
       IN /\ register_a' = r.a
          /\ register_x' = r.x
          /\ status' = r.st
    /\ program_counter' = program_counter + 1
    /\ last' = "inx" /\ prev' = last
    /\ steps' = steps + 1
    /\ UNCHANGED <<memory, phase, entry, RunGhosts>>

\* an unknown opcode that is skipped like a one-byte no-op
TodoSkip ==
    /\ Fetched(mem_read(memory, program_counter))
    /\ mem_read(memory, program_counter) \notin {OpLDA, OpBRK, OpTAX, OpINX}
    /\ program_counter' = program_counter + 1
    /\ last' = "todo" /\ prev' = last
    /\ UNCHANGED <<register_a, register_x, status, memory, phase, entry, steps, RunGhosts>>

\* _ => todo!()
Todo ==
    /\ Fetched(mem_read(memory, program_counter))
    /\ mem_read(memory, program_counter) \notin {OpLDA, OpBRK, OpTAX, OpINX}
    /\ program_counter' = program_counter + 1
    /\ phase' = "Fatal"
    /\ last' = "todo" /\ prev' = last
    /\ UNCHANGED <<register_a, register_x, status, memory, entry, steps, RunGhosts>>

Step == FetchPanic \/ Lda \/ Brk \/ Tax \/ Inx \/ Todo

(***************************************************************************)
(* load_and_run of programs that fill the memory from 0x8000 to its last   *)
(* entry, so that the run walks up to the reset vector load wrote over     *)
(* them.                                                                   *)
(***************************************************************************)
\* lead times INX, then LDA #0 up to the program's end
FillProgram(len, lead) ==
    [len |-> len,
     bytes |-> [i \in {j \in 0..(len - 1) : j < lead \/ (j - lead) % 2 = 0} |->
                   IF i < lead THEN OpINX ELSE OpLDA]]

\* with LDA at the even offsets the fetch arrives at 0xFFFC; after a leading
\* INX LDA is at the odd offsets and the byte at 0xFFFC is an operand
FillPrograms == {FillProgram(Capacity, 0), FillProgram(Capacity, 1)}

\* the steps of the loop whose fetch is inside the array
StepInBounds == Lda \/ Brk \/ Tax \/ Inx \/ Todo

NextFill ==
    \/ \E v \in StatusSamples : SetStatus(v)
    \/ calls = 0 /\ \E prog \in FillPrograms \cup TestPrograms : LoadAndRun(prog)
    \/ StepInBounds

SpecFill == Init /\ [][NextFill]_vars

(***************************************************************************)
(* A processor that is loaded once, by its first call, and then reset and *)
(* run from the registers the caller left.                                 *)
(***************************************************************************)
Presets ==
    \/ \E v \in ASamples : SetRegisterA(v)
    \/ \E v \in XSamples : SetRegisterX(v)
    \/ \E v \in StatusSamples : SetStatus(v)

Next ==
    \/ Presets
    \/ \E v \in CounterSamples : SetProgramCounter(v)
    \/ calls = 0 /\ \E prog \in Programs : Load(prog)
    \/ calls = 0 /\ \E prog \in Programs \cup BytePrograms : LoadAndRun(prog)
    \/ SetProgramCounterFromVector
    \/ Reset
    \/ Run
    \/ Step

Spec == Init /\ [][Next]_vars

(***************************************************************************)
(* A processor that is loaded again and again, at any point between its   *)
(* other calls, with programs that stop short of the reset vector, cover   *)
(* it, fill the memory, or are too long for it.                            *)
(***************************************************************************)
ReloadPrograms ==
    {Vec(<<>>), Vec(<<OpINX>>), Vec(<<OpLDA, 2, OpTAX>>)} \cup
    {LongProgram(len, OpINX) : len \in (Capacity - 3)..(Capacity + MaxOver)}

NextReload ==
    \/ \E v \in StatusSamples : SetStatus(v)
    \/ \E v \in CounterSamples : SetProgramCounter(v)
    \/ loads < MaxLoads /\ \E prog \in ReloadPrograms : Load(prog)
    \/ loads < MaxLoads /\ \E prog \in ReloadPrograms : LoadAndRun(prog)
    \/ SetProgramCounterFromVector
    \/ Reset
    \/ Run
    \/ Step

SpecReload == Init /\ [][NextReload]_vars

(***************************************************************************)
(* The memory helpers, called one at a time on a processor that runs       *)
(* nothing.  `written` is what the caller asked for: the byte its last     *)
(* mem_write or mem_write_u16 to an address of the 16-bit address space    *)
(* was to store there.                                                     *)
(***************************************************************************)
\* addr + 1 of a u16 that wraps
NextAddress(addr) == (addr + 1) % 65536

MemFrame == <<register_a, register_x, status, program_counter, program,
              entry, steps, loads>>

\* mem_read(addr)
MemRead(addr) ==
    /\ Callable /\ calls < MaxCalls
    /\ last' = "mem_read" /\ prev' = last
    /\ calls' = calls + 1
    /\ IF InBounds(addr)
       THEN /\ call' = [addr |-> addr, data |-> 0, ret |-> mem_read(memory, addr)]
            /\ phase' = "Idle"
       ELSE /\ call' = [addr |-> addr, data |-> 0, ret |-> 0]
            /\ phase' = "Fatal"
    /\ UNCHANGED <<memory, written, MemFrame>>

\* mem_write(addr, data)
MemWrite(addr, data) ==
    /\ Callable /\ calls < MaxCalls
    /\ last' = "mem_write" /\ prev' = last
    /\ calls' = calls + 1
    /\ call' = [addr |-> addr, data |-> data, ret |-> 0]
    /\ written' = mem_write(written, addr, data)
    /\ IF InBounds(addr)
       THEN /\ memory' = mem_write(memory, addr, data)
            /\ phase' = "Idle"
       ELSE /\ phase' = "Fatal"
            /\ UNCHANGED memory
    /\ UNCHANGED MemFrame

\* mem_read_u16(addr): the read at addr, then the read at addr + 1; the
\* first read panics unless addr < 0xFFFF, so addr + 1 does not overflow
MemReadU16(addr) ==
    /\ Callable /\ calls < MaxCalls
    /\ last' = "mem_read_u16" /\ prev' = last
    /\ calls' = calls + 1
    /\ IF InBounds(addr) /\ InBounds(addr + 1)
       THEN /\ call' = [addr |-> addr, data |-> 0,
                        ret |-> mem_read_u16(memory, addr)]
            /\ phase' = "Idle"
       ELSE /\ call' = [addr |-> addr, data |-> 0, ret |-> 0]
            /\ phase' = "Fatal"
    /\ UNCHANGED <<memory, written, MemFrame>>

\* mem_write_u16(addr, data): the write of the low byte at addr, then the
\* write of the high byte at addr + 1; either may panic, the second after
\* the first has stored its byte
MemWriteU16(addr, data) ==
    /\ Callable /\ calls < MaxCalls
    /\ last' = "mem_write_u16" /\ prev' = last
    /\ calls' = calls + 1
    /\ call' = [addr |-> addr, data |-> data, ret |-> 0]
    /\ written' = mem_write(mem_write(written, addr, LoByte(data)),
                            NextAddress(addr), HiByte(data))
    /\ IF ~InBounds(addr)
       THEN /\ phase' = "Fatal"
            /\ UNCHANGED memory
       ELSE IF ~InBounds(addr + 1)
       THEN /\ phase' = "Fatal"
            /\ memory' = mem_write(memory, addr, LoByte(data))
       ELSE /\ phase' = "Idle"
            /\ memory' = mem_write_u16(memory, addr, data)
    /\ UNCHANGED MemFrame

\* the first and the last addresses of the address space, and the reset vector
AddressSamples == {0, 1, ResetVector, MemLen - 1, MemLen}

ByteSamples == {0, 52}

WordSamples == {0, 4660, Origin}

NextMem ==
    \/ \E addr \in AddressSamples : MemRead(addr)
    \/ \E addr \in AddressSamples, data \in ByteSamples : MemWrite(addr, data)
    \/ \E addr \in AddressSamples : MemReadU16(addr)
    \/ \E addr \in AddressSamples, data \in WordSamples : MemWriteU16(addr, data)

SpecMem == Init /\ [][NextMem]_vars

(***************************************************************************)
(* Properties.                                                             *)
(***************************************************************************)
\* bit 7 of a byte
Bit7(b) == (b \div 128) % 2 = 1

\* program is exactly the bytes of the sequence s
ProgramIs(s) == program = Vec(s)

\* the state is one of run(), entered by the first call, load_and_run
FirstLoadAndRun ==
    /\ calls = 1
    /\ loads = 1
    /\ last \in {"load_and_run", "lda", "tax", "inx", "brk", "todo", "fetch"}

\* C1: right after an instruction of run() that writes a register (LDA the
\* accumulator, TAX and INX index_x), the Zero flag is set exactly when that
\* register is 0 and the Negative flag exactly when its bit 7 is 1.
C1_FlagsReflectResult ==
    (phase = "Running" /\ last \in {"lda", "tax", "inx"}) =>
        LET r == IF last = "lda" THEN register_a ELSE register_x
        IN /\ ZeroFlag <=> (r = 0)
           /\ NegativeFlag <=> Bit7(r)

\* INX has wrapped index_x to 0 in a run entered with every status bit set:
\* Zero stays set, Negative is cleared
C1_Witness ==
    /\ phase = "Running"
    /\ last = "inx"
    /\ entry.st = 255
    /\ register_x = 0
    /\ status = 127

\* C2: load_and_run([0xA9, v, 0x00]) as the first call of a processor never
\* stops fatally, executes two instructions, and halts with accumulator = v,
\* Zero set iff v = 0 and Negative set iff bit 7 of v is 1.
C2_LdaImmediate ==
    \A v \in U8 :
        (FirstLoadAndRun /\ ProgramIs(<<OpLDA, v, OpBRK>>)) =>
            /\ phase \in {"Running", "Halted"}
            /\ steps <= 2
            /\ phase = "Running" => steps < 2
            /\ phase = "Halted" =>
                  /\ register_a = v
                  /\ ZeroFlag <=> (v = 0)
                  /\ NegativeFlag <=> Bit7(v)

\* LDA 0x80, BRK has halted
C2_Witness ==
    /\ FirstLoadAndRun
    /\ ProgramIs(<<OpLDA, 128, OpBRK>>)
    /\ phase = "Halted"
    /\ register_a = 128
    /\ NegativeFlag
    /\ ~ZeroFlag

\* C3: TAX leaves index_x equal to the accumulator and the accumulator as it
\* was, and sets Zero iff that value is 0 and Negative iff its bit 7 is 1,
\* whatever index_x and status were before.
C3_Tax ==
    [][Tax =>
          /\ register_x' = register_a
          /\ register_a' = register_a
          /\ ZeroFlag' <=> (register_a = 0)
          /\ NegativeFlag' <=> Bit7(register_a)]_vars

\* TAX has run after load() and the vector read, without reset(): the
\* accumulator is the 10 the caller stored, over an index_x of 255 and a
\* status of 255
C3_Witness ==
    /\ last = "tax"
    /\ steps = 1
    /\ entry.a = 10
    /\ entry.x = 255
    /\ entry.st = 255
    /\ register_x = 10
    /\ register_a = 10
    /\ status = 125

\* the run of [0xE8, 0xE8, 0x00] from Origin, entered with index_x = 0xFF
InxOverflowRun ==
    /\ ProgramIs(<<OpINX, OpINX, OpBRK>>)
    /\ entry.pc = Origin
    /\ entry.x = 255
    /\ phase = "Running" \/ (phase \in {"Halted", "Fatal"} /\ last \in {"brk", "todo", "fetch", "lda"})

\* C4: INX sets index_x to (index_x + 1) mod 256 and does not stop the run;
\* the run of [0xE8, 0xE8, 0x00] entered with index_x = 0xFF has index_x = 0
\* and Zero set after the first INX, and halts after the second with
\* index_x = 1 and Zero cleared.
C4_InxWraps ==
    [][/\ Inx => /\ register_x' = (register_x + 1) % 256
                 /\ phase' = "Running"
       /\ InxOverflowRun' =>
             /\ phase' # "Fatal"
             /\ steps' <= 3
             /\ steps' = 1 => (register_x' = 0 /\ ZeroFlag' /\ phase' = "Running")
             /\ steps' = 2 => (register_x' = 1 /\ ~ZeroFlag' /\ phase' = "Running")
             /\ steps' = 3 => (register_x' = 1 /\ ~ZeroFlag' /\ phase' = "Halted")]_vars

\* that run has halted
C4_Witness ==
    /\ InxOverflowRun
    /\ phase = "Halted"
    /\ steps = 3
    /\ register_x = 1
    /\ ~ZeroFlag

\* C5: load_and_run([0xA9, v, 0xAA, 0xE8, 0x00]) as the first call of a
\* processor never stops fatally and halts after four instructions with
\* accumulator = v, index_x = (v + 1) mod 256, and Zero and Negative set
\* from index_x.
C5_EndToEnd ==
    \A v \in U8 :
        (FirstLoadAndRun /\ ProgramIs(<<OpLDA, v, OpTAX, OpINX, OpBRK>>)) =>
            /\ phase \in {"Running", "Halted"}
            /\ steps <= 4
            /\ phase = "Running" => steps < 4
            /\ phase = "Halted" =>
                  /\ register_a = v
                  /\ register_x = (v + 1) % 256
                  /\ ZeroFlag <=> (v = 255)
                  /\ NegativeFlag <=> (127 <= v /\ v < 255)

\* LDA 0xC0, TAX, INX, BRK has halted with index_x = 0xC1
C5_Witness ==
    /\ FirstLoadAndRun
    /\ ProgramIs(<<OpLDA, 192, OpTAX, OpINX, OpBRK>>)
    /\ phase = "Halted"
    /\ register_a = 192
    /\ register_x = 193

\* C6: reset() right after an accepted load(program) leaves program_counter
\* at Origin (0x8000), whatever the program's length and the state before
\* the load; so does the load and reset of load_and_run.
C6_LoadThenReset ==
    /\ (last = "reset" /\ prev = "load") => program_counter = Origin
    /\ (last = "load_and_run" /\ phase = "Running") => program_counter = Origin

\* the second load of a processor was of the longest program load accepts,
\* whose bytes cover the reset vector, and reset() followed it
C6_Witness ==
    /\ last = "reset"
    /\ prev = "load"
    /\ loads = 2
    /\ program.len = Capacity
    /\ vec_at(program, ResetVector - Origin) = OpINX
    /\ program_counter = Origin

\* C7: reset() sets accumulator, index_x and status to 0, sets
\* program_counter to byte(0xFFFC) + 256 * byte(0xFFFD), and leaves the
\* memory as it was.
C7_Reset ==
    [][Reset =>
          /\ register_a' = 0
          /\ register_x' = 0
          /\ status' = 0
          /\ program_counter' = mem_read(memory, ResetVector)
                                + 256 * mem_read(memory, ResetVector + 1)
          /\ memory' = memory]_vars

\* reset() after a run that was entered with accumulator 128, index_x 255
\* and status 255
C7_Witness ==
    /\ last = "reset"
    /\ prev = "brk"
    /\ entry.a = 128
    /\ entry.x = 255
    /\ entry.st = 255
    /\ register_a = 0
    /\ register_x = 0
    /\ status = 0
    /\ program_counter = Origin

\* C8: a reset() that follows a reset() directly changes neither the
\* accumulator, index_x, status nor program_counter.
C8_ResetIdempotent ==
    [][(last = "reset" /\ Reset) =>
          UNCHANGED <<register_a, register_x, status, program_counter>>]_vars

\* two resets in a row, of a loaded processor
C8_Witness ==
    /\ last = "reset"
    /\ prev = "reset"
    /\ loads = 1
    /\ program_counter = Origin

\* C9: mem_read and mem_write do not fail at any address of 0x0000..0xFFFF,
\* and mem_read returns the byte last written to the address, 0 if none was.
C9_MemoryTotal ==
    /\ last \in {"mem_read", "mem_write"} => phase # "Fatal"
    /\ last = "mem_read" => call.ret = mem_read(written, call.addr)

\* C10: mem_write_u16(addr, v) does not fail, stores the low byte of v at
\* addr and the high byte at (addr + 1) mod 0x10000, and a mem_read_u16(addr)
\* right after it returns v.
C10_Word ==
    [][/\ last' = "mem_write_u16" =>
             /\ phase' # "Fatal"
             /\ mem_read(memory', call'.addr) = call'.data % 256
             /\ mem_read(memory', NextAddress(call'.addr)) = call'.data \div 256
       /\ (last = "mem_write_u16" /\ MemReadU16(call.addr)) =>
             /\ phase' # "Fatal"
             /\ call'.ret = call.data]_vars

\* the state right after an accepted load(program), alone or in load_and_run
JustLoaded ==
    \/ last = "load" /\ phase = "Idle"
    \/ last = "load_and_run" /\ phase = "Running"

\* the addresses of the program's bytes and of the memory's bytes that can
\* differ from 0
LoadedAddresses ==
    {Origin + i : i \in DOMAIN program.bytes} \cup
    {a \in DOMAIN memory : Origin <= a /\ a < Origin + program.len}

\* the two bytes of the reset vector
VectorAddresses == {ResetVector, ResetVector + 1}

\* C11, as claimed: after an accepted load(program) the byte at Origin + i is
\* program[i] for every i below program.len.
C11_Verbatim ==
    JustLoaded =>
        \A a \in LoadedAddresses : mem_read(memory, a) = vec_at(program, a - Origin)

\* C11, amended: after an accepted load(program) the byte at Origin + i is
\* program[i] for every i below program.len but those at the reset vector
\* 0xFFFC-0xFFFD, which hold 0x00 and 0x80 whatever the program has there.
C11_VerbatimButVector ==
    JustLoaded =>
        /\ \A a \in LoadedAddresses \ VectorAddresses :
              mem_read(memory, a) = vec_at(program, a - Origin)
        /\ mem_read(memory, ResetVector) = 0
        /\ mem_read(memory, ResetVector + 1) = 128

\* the longest program load accepts has been loaded: its bytes below and
\* above the reset vector are in memory, the vector is 0x8000
C11_Witness ==
    /\ JustLoaded
    /\ program.len = Capacity
    /\ vec_at(program, ResetVector - Origin) = OpINX
    /\ mem_read(memory, ResetVector - 1) = OpINX
    /\ mem_read(memory, ResetVector + 2) = OpINX
    /\ mem_read(memory, ResetVector) = 0

\* C12, as claimed: load(program) stops fatally exactly when program.len is
\* above 0x8000, the bytes from Origin to the top of the 16-bit address
\* space, and a load that stops changes no register and no memory byte.
C12_RejectsOversized ==
    [][(last' \in {"load", "load_and_run"} /\ calls' = calls + 1) =>
          /\ (phase' = "Fatal") <=> (program'.len > 65536 - Origin)
          /\ phase' = "Fatal" => UNCHANGED cpu]_vars

\* the byte the run loop is about to fetch as an opcode
AtOpcode(ops) ==
    /\ phase = "Running"
    /\ InBounds(program_counter)
    /\ mem_read(memory, program_counter) \in ops

\* the opcodes run() decodes
KnownOpcodes == {OpLDA, OpBRK, OpTAX, OpINX}

\* the labels of the calls of the public interface
CallLabels == {"set", "counter", "vector", "load", "reset", "run", "load_and_run"}

\* C13: when run() fetches a byte other than 0xA9, 0xAA, 0xE8 and 0x00 it
\* stops at once in the fatal state with accumulator, index_x, status and
\* memory as they were before the fetch, and nothing happens after a fatal
\* stop: no later instruction is fetched.
C13_UnknownOpcodeIsFatal ==
    [][/\ AtOpcode(U8 \ KnownOpcodes) =>
             /\ phase' = "Fatal"
             /\ UNCHANGED <<register_a, register_x, status, memory>>
       /\ phase # "Fatal"]_vars

\* INX ran from index_x 0xFF, then the byte 0x02 was fetched: the run is
\* fatal and index_x is still the 0 INX left
C13_Witness ==
    /\ phase = "Fatal"
    /\ last = "todo"
    /\ ProgramIs(<<OpINX, 2>>)
    /\ entry.x = 255
    /\ register_x = 0
    /\ steps = 1

\* C14: run() becomes Halted only by fetching 0x00, which leaves accumulator,
\* index_x, status and memory alone and program_counter at the BRK byte's
\* address plus 1; a fetched 0x00 always halts; after LDA, TAX and INX the
\* loop goes on to another fetch; and a halted run fetches nothing more (only
\* a new call follows it).
C14_HaltOnlyByBrk ==
    [][/\ (phase' = "Halted" /\ phase # "Halted") =>
             /\ AtOpcode({OpBRK})
             /\ program_counter' = program_counter + 1
             /\ UNCHANGED <<register_a, register_x, status, memory>>
       /\ AtOpcode({OpBRK}) => phase' = "Halted"
       /\ AtOpcode({OpTAX, OpINX}) => phase' = "Running"
       /\ (AtOpcode({OpLDA}) /\ InBounds(program_counter + 1)) => phase' = "Running"
       /\ phase = "Halted" => last' \in CallLabels]_vars

\* LDA 5, TAX, INX, BRK has run to its BRK at 0x8004
C14_Witness ==
    /\ phase = "Halted"
    /\ last = "brk"
    /\ prev = "inx"
    /\ mem_read(memory, Origin + 4) = OpBRK
    /\ program_counter = Origin + 5
    /\ register_a = 5
    /\ register_x = 6

\* C16: an executed LDA immediate takes its operand from the byte right after
\* the opcode and advances program_counter by 2; TAX, INX and BRK advance it
\* by 1; so the next fetch is at the byte after the instruction's last byte.
C16_EncodedLength ==
    [][/\ (AtOpcode({OpLDA}) /\ InBounds(program_counter + 1)) =>
             /\ program_counter' = program_counter + 2
             /\ register_a' = mem_read(memory, program_counter + 1)
       /\ AtOpcode({OpTAX, OpINX, OpBRK}) =>
             program_counter' = program_counter + 1]_vars

\* LDA with the operand 0xA9 (an opcode value) has run: the accumulator holds
\* the operand and the next fetch is past it
C16_Witness ==
    /\ phase = "Running"
    /\ last = "lda"
    /\ ProgramIs(<<OpLDA, OpLDA>>)
    /\ program_counter = Origin + 2
    /\ register_a = OpLDA
    /\ steps = 1

\* C19: no step of run() changes a memory byte, so run() entered after a
\* later reset() starts at 0x8000 on the memory load left: the same program.
C19_RunKeepsMemory ==
    [][/\ phase = "Running" => memory' = memory
       /\ (last = "reset" /\ last' = "run" /\ loads = 1) =>
             /\ program_counter' = Origin
             /\ memory' = load_memory(EmptyMemory, program)]_vars

\* load_and_run, reset, run: the second run of LDA 0xC0, TAX, INX, BRK has
\* halted with the same result
C19_Witness ==
    /\ phase = "Halted"
    /\ last = "brk"
    /\ calls = 3
    /\ loads = 1
    /\ ProgramIs(<<OpLDA, 192, OpTAX, OpINX, OpBRK>>)
    /\ entry.pc = Origin
    /\ entry.a = 0
    /\ register_x = 193

\* a state of run(): the loop is entered, or one of its steps was the last
\* thing to happen
InRun ==
    \/ last \in {"run", "load_and_run"} /\ phase = "Running"
    \/ last \in {"fetch", "lda", "brk", "tax", "inx", "todo"}

\* C20: in every state of a run() entered with the status reset() leaves
\* (0), status is 0x00, 0x02 or 0x80: the reserved bits are 0 and Zero and
\* Negative are never both set.
C20_StatusAfterReset ==
    (InRun /\ entry.st = 0) => status \in {0, ZeroMask, NegativeMask}

\* LDA 0xFF, TAX, INX: index_x wrapped to 0, Zero is set and Negative cleared
C20_Witness ==
    /\ last = "inx"
    /\ entry.st = 0
    /\ register_a = 255
    /\ register_x = 0
    /\ status = ZeroMask

\* C15: update_zero_and_negative_flags(r) changes status bits 1 and 7 alone:
\* for every status s and result r the bits 0 and 2 to 6 stay those of s, and
\* accumulator, index_x, program_counter and memory are unchanged.
C15_FlagsOnly ==
    [][last' = "update_flags" =>
          /\ status' % 2 = status % 2
          /\ (status' \div 4) % 32 = (status \div 4) % 32
          /\ UNCHANGED <<register_a, register_x, program_counter, memory>>]_vars

\* the update for result 0 on a status with every reserved bit set: Zero
\* set, Negative cleared, the six other bits still set
C15_Witness ==
    /\ last = "update_flags"
    /\ call.data = 0
    /\ call.ret = 255
    /\ status = 127
    /\ register_a = 10

\* C17: load(program) leaves accumulator, index_x, status and
\* program_counter, and changes memory at most at 0x8000 .. 0x8000 +
\* program.len - 1 and at the reset vector 0xFFFC-0xFFFD.
C17_LoadFrame ==
    [][(last' = "load" /\ calls' = calls + 1) =>
          /\ UNCHANGED <<register_a, register_x, status, program_counter>>
          /\ \A a \in DOMAIN memory \cup DOMAIN memory' :
                mem_read(memory', a) # mem_read(memory, a) =>
                   \/ Origin <= a /\ a < Origin + program'.len
                   \/ a \in VectorAddresses]_vars

\* a one-byte program loaded over LDA 2, TAX: the TAX of the earlier
\* program is still at 0x8002
C17_Witness ==
    /\ last = "load"
    /\ phase = "Idle"
    /\ loads = 2
    /\ ProgramIs(<<OpINX>>)
    /\ mem_read(memory, Origin) = OpINX
    /\ mem_read(memory, Origin + 1) = 2
    /\ mem_read(memory, Origin + 2) = OpTAX

\* C18: in every state of the run of load_and_run(program) the fetch address
\* is in 0x8000..0xFFFD, program_counter is at most 0xFFFE, and the number
\* of instructions executed is at most program_counter - 0x8000: the run
\* stops, by BRK or the unknown opcode, within 0x7FFE instructions, without
\* fetching at 0xFFFF.  (Every run of SpecFill is load_and_run's.)
C18_LoadAndRunStops ==
    InRun =>
        /\ phase = "Running" =>
              Origin <= program_counter /\ program_counter <= ResetVector + 1
        /\ program_counter <= ResetVector + 2
        /\ steps <= program_counter - Origin
        /\ last # "fetch"

\* load_and_run of the 0x7FFF-byte program INX, LDA #0, LDA #0, ..., which
\* covers the reset vector, is under way from 0x8000
C18_Witness ==
    /\ phase = "Running"
    /\ last = "lda"
    /\ prev = "inx"
    /\ program = FillProgram(Capacity, 1)
    /\ mem_read(memory, ResetVector - 1) = OpLDA
    /\ mem_read(memory, ResetVector + 1) = 128
    /\ program_counter = Origin + 3
    /\ steps = 2

====
